---- MODULE Spec2Model ----
(***************************************************************************)
(* tunaturk: the UCI adapter thread (src/src/main.rs), the worker thread   *)
(* that owns the Engine, and the Engine's budget resolution and negamax    *)
(* search (src/src/engine.rs).                                             *)
(*                                                                         *)
(* A u32 is kept as two 16-bit limbs <<hi, lo>> (value hi * 2^16 + lo), so *)
(* that the whole u32 range, and the products that leave it, are computed  *)
(* exactly.  An absent Option<u32> is the empty tuple.                     *)
(***************************************************************************)
EXTENDS Integers, Sequences, FiniteSets, TLC

VARIABLES
    apc,             \* adapter (main) thread: where it is in its loop
    wpc,             \* worker thread: where it is in its loop / in find_best_move
    chan,            \* the mpsc channel: messages sent and not yet received
    lock,            \* owner of the Mutex<Shared>
    stop,            \* Shared.stop
    overflow_checks, \* whether the build traps integer overflow (debug) or wraps (release)
    board,           \* Engine.board
    my_side,         \* Engine.my_side
    search_info,     \* Engine.search_info
    search_stack,    \* Engine.search_stack: the board_hash of each slot, slot d at index d + 1
    end_cond,        \* find_best_move's end_cond
    frames,          \* the negamax activations, outermost first
    ret,             \* the value the last finished negamax activation returned
    saw_stop,        \* whether a poll of the running search has read stop = true
    out,             \* the lines printed on stdout, in order
    nlines,          \* input lines the adapter has read
    nsent,           \* messages the adapter has sent
    nrecv,           \* messages the worker has received
    cur,             \* the message the worker is processing
    werr,            \* the panic message of the worker thread, "" while it runs
    aerr,            \* the expression the main thread panicked in, "" while it runs
    stop_sent,       \* messages the adapter had sent when it last wrote stop = true
    perft_call,      \* the arguments of a perft call of the test, <<>> without one
    perft_nodes      \* what that call returned, -1 before it has

vars ==
    <<apc, wpc, chan, lock, stop, overflow_checks, board, my_side, search_info,
      search_stack, end_cond, frames, ret, saw_stop, out, nlines, nsent, nrecv, cur,
      werr, aerr, stop_sent, perft_call, perft_nodes>>

\* what only the perft test touches
test_vars == <<perft_call, perft_nodes>>

aux_vars == <<aerr, stop_sent, test_vars>>

\* Input lines the adapter reads after the uci handshake.
MaxLines == 3

(***************************************************************************)
(* u32 arithmetic                                                          *)
(***************************************************************************)
Limb == 256 * 256

NoneU32 == <<>>

IsSome(o) == o # NoneU32

ZeroU32 == <<0, 0>>

LtU32(a, b) == a[1] < b[1] \/ (a[1] = b[1] /\ a[2] < b[2])

\* a - b for b <= a
SubU32(a, b) ==
    IF a[2] >= b[2] THEN <<a[1] - b[1], a[2] - b[2]>>
    ELSE <<a[1] - b[1] - 1, a[2] + Limb - b[2]>>

\* x * 3 in full: three limbs, the first one is what does not fit a u32
Mul3Wide(x) ==
    LET lo == x[2] * 3
        hi == x[1] * 3 + (lo \div Limb)
    IN  <<hi \div Limb, hi % Limb, lo % Limb>>

Mul3Overflows(x) == Mul3Wide(x)[1] # 0

\* x * 3 as a wrapping u32 multiplication
Mul3Wrap(x) == <<Mul3Wide(x)[2], Mul3Wide(x)[3]>>

\* x / k for a small k, by long division over the limbs
DivU32(x, k) == <<x[1] \div k, ((x[1] % k) * Limb + x[2]) \div k>>

\* a + b; the callers' operands never carry out of the u32
AddU32(a, b) ==
    LET lo == a[2] + b[2]
    IN  <<(a[1] + b[1] + (lo \div Limb)) % Limb, lo % Limb>>

\* `x as u8`
AsU8(x) == x[2] % 256

(***************************************************************************)
(* cozy_chess::Board, as far as the engine reads it.  A position is a      *)
(* number in Boards; the tables give    what the library answers for it.     *)
(* Sides alternate along every move; Won and stalemated positions have no  *)
(* move; position 11 is drawn by the fifty-move rule and still has one.    *)
(* Positions 1/5/6 and 2/7 have equal hashes (64-bit Zobrist collisions),  *)
(* position 13, which position 14 leads to, has hash 0.                    *)
(***************************************************************************)
White == "White"
Black == "Black"
Color == {White, Black}

Startpos == 1

SideTab ==
    <<White, Black, Black, White, White, White, Black, Black,
      White, Black, White, Black, White, Black, Black>>

StatusTab ==
    <<"Ongoing", "Ongoing", "Ongoing", "Ongoing", "Won", "Ongoing", "Ongoing", "Ongoing",
      "Won", "Drawn", "Drawn", "Won", "Ongoing", "Ongoing", "Won">>

HashTab == <<11, 12, 13, 14, 11, 11, 12, 18, 19, 20, 21, 22, 0, 24, 25>>

WhiteTab == <<16, 16, 16, 16, 15, 15, 16, 16, 15, 16, 16, 16, 16, 16, 15>>

BlackTab == <<16, 16, 16, 16, 16, 16, 15, 15, 15, 16, 16, 16, 16, 16, 15>>

MovesTab ==
    << <<2, 3>>, <<4, 5>>, <<6, 11>>, <<7, 10, 12>>, <<>>, <<15>>, <<9>>, <<9>>,
       <<>>, <<>>, <<10>>, <<>>, <<10>>, <<13>>, <<>> >>

\* The tables list Base positions; position Base + b is position b with the
\* colours of all pieces and the side to move swapped: the same status, the
\* piece counts exchanged, its own hash, and the mirrored moves in the same
\* order.
Base == Len(SideTab)

Boards == 1..(2 * Base)

Mirrored(b) == b > Base

\* the colour-mirrored counterpart of a position
mirror(b) == IF Mirrored(b) THEN b - Base ELSE b + Base

Other(c) == IF c = White THEN Black ELSE White

side_to_move(b) == IF Mirrored(b) THEN Other(SideTab[mirror(b)]) ELSE SideTab[b]

status(b) == IF Mirrored(b) THEN StatusTab[mirror(b)] ELSE StatusTab[b]

hash(b) == IF Mirrored(b) THEN HashTab[mirror(b)] + 100 ELSE HashTab[b]

colors(b, c) ==
    IF Mirrored(b)
    THEN IF c = White THEN BlackTab[mirror(b)] ELSE WhiteTab[mirror(b)]
    ELSE IF c = White THEN WhiteTab[b] ELSE BlackTab[b]

\* the moves in the order generate_moves hands them over; a move is named by
\* the position it leads to
generate_moves(b) ==
    IF Mirrored(b)
    THEN [i \in 1..Len(MovesTab[mirror(b)]) |-> mirror(MovesTab[mirror(b)][i])]
    ELSE MovesTab[b]

play_unchecked(b, mv) == mv

\* Option<Move>::None
NoMove == 0

(***************************************************************************)
(* GoInfo and the budget resolution at the head of find_best_move          *)
(***************************************************************************)
GoInfo(wtime, btime, winc, binc, moves_to_go, depth, nodes, mate, movetime, infinite) ==
    [wtime |-> wtime, btime |-> btime, winc |-> winc, binc |-> binc,
     moves_to_go |-> moves_to_go, depth |-> depth, nodes |-> nodes, mate |-> mate,
     movetime |-> movetime, infinite |-> infinite]

\* EndCondition; base is the instant a Time deadline is counted from
EndCondition(kind, val, base) == [kind |-> kind, val |-> val, base |-> base]

NoEndCondition == EndCondition("Unset", ZeroU32, "")

Panicked(msg) == EndCondition("Panic", ZeroU32, msg)

\* lines 190-194
time_left(my_time, other_time, checks) ==
    IF LtU32(other_time, my_time)
    THEN LET diff == SubU32(my_time, other_time)
         IN  IF checks /\ Mul3Overflows(diff)
             THEN Panicked("attempt to multiply with overflow")
             ELSE EndCondition("Time",
                               AddU32(DivU32(Mul3Wrap(diff), 4), DivU32(my_time, 10)),
                               "now")
    ELSE EndCondition("Time", DivU32(my_time, 10), "now")

\* lines 164-198
resolve_end_cond(info, side, checks) ==
    IF info.infinite THEN EndCondition("Infinite", ZeroU32, "")
    ELSE IF IsSome(info.nodes) THEN EndCondition("Nodes", info.nodes, "")
    ELSE IF IsSome(info.depth) THEN EndCondition("Depth", <<0, AsU8(info.depth)>>, "")
    ELSE IF IsSome(info.movetime) THEN EndCondition("Time", info.movetime, "t1")
    ELSE IF IsSome(info.btime) /\ IsSome(info.wtime)
         THEN LET my_time == IF side = Black THEN info.btime ELSE info.wtime
                  other_time == IF side = Black THEN info.wtime ELSE info.btime
              IN  time_left(my_time, other_time, checks)
    ELSE Panicked("No end condition findable!")

(***************************************************************************)
(* negamax                                                                 *)
(***************************************************************************)
SearchDepth == 3

StackSize == 16

SearchInfo(nodes) == [nodes |-> nodes, tt_hits |-> 0, cutoffs |-> 0]

evaluate(b) ==
    LET who_movin == IF side_to_move(b) = White THEN 1 ELSE -1
    IN  (colors(b, White) - colors(b, Black)) * who_movin

\* leaf_score with a lost position scored for the side to move, whoever it is
leaf_score_mover(b) ==
    CASE status(b) = "Drawn" -> 0
      [] status(b) = "Won" -> -1000
      [] OTHER -> evaluate(b)

\* lines 225-235
leaf_score(b) ==
    CASE status(b) = "Drawn" -> 0
      [] status(b) = "Won" -> IF side_to_move(b) = White THEN 1000 ELSE -1000
      [] OTHER -> evaluate(b)

\* repeated scanning the slots below the one of this depth
repeated_below(stack, depth, cur_hash) ==
    \E i \in 1..depth : stack[i] = cur_hash

\* lines 237-239: the slots above the one of this depth
repeated(stack, depth, cur_hash) ==
    \E i \in (depth + 2)..Len(stack) : stack[i] = cur_hash

Frame(b, depth, mv, moves, max_score, best_move) ==
    [board |-> b, depth |-> depth, mv |-> mv, moves |-> moves,
     max_score |-> max_score, best_move |-> best_move]

\* an activation that has not run yet
Call(b, depth) == Frame(b, depth, NoMove, <<>>, -1000, NoMove)

Ret(b, depth, mv, score, stopped) ==
    [board |-> b, depth |-> depth, mv |-> mv, score |-> score, stopped |-> stopped]

NoRet == Ret(0, 0, NoMove, 0, FALSE)

\* negamax_head with the slot written before the flag is looked at
negamax_head_write_first(b, depth, stack, stopped) ==
    LET written == [stack EXCEPT ![depth + 1] = hash(b)]
    IN  IF stopped
        THEN [returns |-> TRUE, score |-> 0, moves |-> <<>>, stack |-> written]
        ELSE IF depth = 0 \/ status(b) # "Ongoing"
             THEN [returns |-> TRUE, score |-> leaf_score(b), moves |-> <<>>,
                   stack |-> written]
             ELSE IF repeated(written, depth, hash(b))
             THEN [returns |-> TRUE, score |-> 0, moves |-> <<>>, stack |-> written]
             ELSE [returns |-> generate_moves(b) = <<>>, score |-> -1000,
                   moves |-> generate_moves(b), stack |-> written]

\* lines 219-252 for one activation, once the flag has been read: what it
\* returns at once (returns = TRUE), or the moves it goes on to search, and
\* the search stack it leaves
negamax_head(b, depth, stack, stopped) ==
    IF stopped
    THEN [returns |-> TRUE, score |-> 0, moves |-> <<>>, stack |-> stack]
    ELSE LET written == [stack EXCEPT ![depth + 1] = hash(b)]
         IN  IF depth = 0 \/ status(b) # "Ongoing"
             THEN [returns |-> TRUE, score |-> leaf_score(b), moves |-> <<>>,
                   stack |-> written]
             ELSE IF repeated(written, depth, hash(b))
             THEN [returns |-> TRUE, score |-> 0, moves |-> <<>>, stack |-> written]
             ELSE [returns |-> generate_moves(b) = <<>>, score |-> -1000,
                   moves |-> generate_moves(b), stack |-> written]

\* lines 257-263: the caller takes the child's score
take_score(f, child_score) ==
    LET score == -child_score
    IN  IF score > f.max_score
        THEN [f EXCEPT !.max_score = score, !.best_move = f.mv]
        ELSE f

\* negamax, lines 212-266, run to its end with the flag false throughout:
\* the move and score it returns, the search stack and the node count it
\* leaves
RECURSIVE negamax(_, _, _, _)
RECURSIVE negamax_loop(_, _, _)

negamax(b, depth, stack, nodes) ==
    LET h == negamax_head(b, depth, stack, FALSE)
    IN  IF h.returns
        THEN [mv |-> NoMove, score |-> h.score, stack |-> h.stack, nodes |-> nodes]
        ELSE negamax_loop([Call(b, depth) EXCEPT !.moves = h.moves], h.stack, nodes)

\* lines 253-265: the moves of f still to search
negamax_loop(f, stack, nodes) ==
    IF f.moves = <<>>
    THEN [mv |-> f.best_move, score |-> f.max_score, stack |-> stack, nodes |-> nodes]
    ELSE LET mv == Head(f.moves)
             child == negamax(play_unchecked(f.board, mv), f.depth - 1, stack, nodes + 1)
         IN  negamax_loop(take_score([f EXCEPT !.mv = mv, !.moves = Tail(f.moves)],
                                     child.score),
                          child.stack, child.nodes)

\* perft, lines 284-299
RECURSIVE perft(_, _)
RECURSIVE perft_moves(_, _, _)

\* lines 289-296: nodes, summed over the moves still to play
perft_moves(b, moves, depth) ==
    IF moves = <<>>
    THEN 0
    ELSE perft(play_unchecked(b, Head(moves)), depth - 1) + perft_moves(b, Tail(moves), depth)

\* perft counting the position itself along with what lies below it
perft_with_inner(b, depth) ==
    IF depth = 0 THEN 1 ELSE 1 + perft_moves(b, generate_moves(b), depth)

perft(b, depth) ==
    IF depth = 0 THEN 1 ELSE perft_moves(b, generate_moves(b), depth)

(***************************************************************************)
(* The lines the adapter is given                                          *)
(***************************************************************************)
U32(hi, lo) == <<hi, lo>>

\* str::parse::<u32>, on the numerals the lines below use; anything else
\* ("x", "-1", "4294967296", ...) is an Err
ParseError == <<-1>>

parse_u32(tok) ==
    CASE tok = "1" -> U32(0, 1)
      [] tok = "5" -> U32(0, 5)
      [] tok = "40" -> U32(0, 40)
      [] tok = "4000" -> U32(0, 4000)
      [] tok = "10000" -> U32(0, 10000)
      [] OTHER -> ParseError

\* find_arg!, lines 20-29: None without the keyword; else the token after
\* its first occurrence, parsed; ParseError when the index is out of bounds
\* or the parse fails (both unwind the calling thread)
find_arg(split, x) ==
    IF \E i \in 1..Len(split) : split[i] = x
    THEN LET at == CHOOSE i \in 1..Len(split) :
                       split[i] = x /\ \A j \in 1..(i - 1) : split[j] # x
         IN  IF at + 1 > Len(split) THEN ParseError ELSE parse_u32(split[at + 1])
    ELSE NoneU32

\* GoInfo::new, lines 32-53, on the line split at the blanks; ok = FALSE
\* when a find_arg! panics
GoInfo_new(split) ==
    LET info == GoInfo(find_arg(split, "wtime"), find_arg(split, "btime"),
                       find_arg(split, "winc"), find_arg(split, "binc"),
                       find_arg(split, "movestogo"), find_arg(split, "depth"),
                       find_arg(split, "nodes"), find_arg(split, "mate"),
                       find_arg(split, "movetime"),
                       \E i \in 1..Len(split) : split[i] = "infinite")
    IN  [ok |-> \A x \in {"wtime", "btime", "winc", "binc", "movestogo", "depth", "nodes",
                          "mate", "movetime"} : find_arg(split, x) # ParseError,
         info |-> info]

\* What follows "go" on the lines read, split at the blanks (the first piece
\* is empty): "go depth 5", "go wtime 10000 btime 4000", "go infinite",
\* "go nodes 1", "go movetime 1", "go movestogo 40", and the malformed
\* "go depth" and "go depth x"
GoInputs ==
    { <<"", "depth", "5">>,
      <<"", "wtime", "10000", "btime", "4000">>,
      <<"", "infinite">>,
      <<"", "nodes", "1">>,
      <<"", "movetime", "1">>,
      <<"", "movestogo", "40">>,
      <<"", "depth">>,
      <<"", "depth", "x">> }

\* the GoInfo of the well-formed lines
GoLines == {GoInfo_new(split).info : split \in {t \in GoInputs : GoInfo_new(t).ok}}

\* The text after "position ": startpos or a FEN (fen = 0: one from_fen
\* rejects), then the moves to replay (0: one parse_uci_move rejects)
PositionSpec(startpos, fen, moves) == [startpos |-> startpos, fen |-> fen, moves |-> moves]

PositionLines ==
    { PositionSpec(TRUE, 0, <<>>),
      PositionSpec(TRUE, 0, <<3>>),
      PositionSpec(TRUE, 0, <<9>>),
      PositionSpec(FALSE, 8, <<>>),
      PositionSpec(FALSE, 14, <<>>),
      PositionSpec(FALSE, 0, <<>>) }

Message(id, type, info, spec) == [id |-> id, type |-> type, info |-> info, spec |-> spec]

NoInfo ==
    GoInfo(NoneU32, NoneU32, NoneU32, NoneU32, NoneU32, NoneU32, NoneU32, NoneU32, NoneU32,
           FALSE)

NoSpec == PositionSpec(FALSE, 0, <<>>)

NoMessage == Message(0, "", NoInfo, NoSpec)

OutLine(cmd, line, mv, nodes, score) ==
    [cmd |-> cmd, line |-> line, mv |-> mv, nodes |-> nodes, score |-> score]

(***************************************************************************)
(* Init: main.rs:32-36, the handshake done, the worker spawned             *)
(***************************************************************************)
EngineNew ==
    /\ search_info = SearchInfo(0)
    /\ board = Startpos
    /\ my_side = White
    /\ search_stack = <<>>

Init ==
    /\ apc = "input"
    /\ wpc = "recv"
    /\ chan = <<>>
    /\ lock = "free"
    /\ stop = FALSE
    /\ overflow_checks \in BOOLEAN
    /\ EngineNew
    /\ end_cond = NoEndCondition
    /\ frames = <<>>
    /\ ret = NoRet
    /\ saw_stop = FALSE
    /\ out = <<>>
    /\ nlines = 0
    /\ nsent = 0
    /\ nrecv = 0
    /\ cur = NoMessage
    /\ werr = ""
    /\ aerr = ""
    /\ stop_sent = 0
    /\ perft_call = <<>>
    /\ perft_nodes = -1

engine_vars == <<board, my_side, search_info, search_stack, end_cond, frames, ret, saw_stop>>

worker_vars == <<wpc, engine_vars, out, nrecv, cur, werr>>

\* the process lives until main returns or panics
Alive == apc \notin {"exited", "panicked"}

(***************************************************************************)
(* The adapter loop, main.rs:58-89                                         *)
(***************************************************************************)
ReadLine ==
    /\ apc = "input"
    /\ nlines < MaxLines
    /\ nlines' = nlines + 1

\* send.send(msg).unwrap(): an Err, and so a panic, once the worker is gone
Send(type, info, spec) ==
    IF wpc = "panicked"
    THEN /\ apc' = "panicked"
         /\ aerr' = "send.send(..).unwrap()"
         /\ UNCHANGED <<chan, nsent>>
    ELSE /\ chan' = Append(chan, Message(nsent + 1, type, info, spec))
         /\ nsent' = nsent + 1
         /\ UNCHANGED <<apc, aerr>>

AUciNewGame ==
    /\ ReadLine
    /\ Send("NewGame", NoInfo, NoSpec)
    /\ UNCHANGED <<lock, stop, overflow_checks, worker_vars>>
    /\ UNCHANGED <<stop_sent, test_vars>>

APosition ==
    /\ ReadLine
    /\ \E spec \in PositionLines : Send("SetPosition", NoInfo, spec)
    /\ UNCHANGED <<lock, stop, overflow_checks, worker_vars>>
    /\ UNCHANGED <<stop_sent, test_vars>>

\* "position" alone: input.get(9..) is None
APositionShort ==
    /\ ReadLine
    /\ apc' = "panicked"
    /\ UNCHANGED <<chan, nsent, lock, stop, overflow_checks, worker_vars>>
    /\ aerr' = "input.get(9..).unwrap()"
    /\ UNCHANGED <<stop_sent, test_vars>>

AGo ==
    /\ ReadLine
    /\ \E info \in GoLines : Send("Go", info, NoSpec)
    /\ UNCHANGED <<lock, stop, overflow_checks, worker_vars>>
    /\ UNCHANGED <<stop_sent, test_vars>>

\* a keyword that ends the line or is followed by no integer: GoInfo::new
\* panics, in the thread that called it (main.rs:73)
AGoMalformed ==
    /\ ReadLine
    /\ \E split \in GoInputs : ~GoInfo_new(split).ok
    /\ apc' = "panicked"
    /\ UNCHANGED <<chan, nsent, lock, stop, overflow_checks, worker_vars>>
    /\ aerr' = "GoInfo::new(input.get(2..))"
    /\ UNCHANGED <<stop_sent, test_vars>>

AStop ==
    /\ ReadLine
    /\ apc' = "stop_lock"
    /\ UNCHANGED <<chan, nsent, lock, stop, overflow_checks, worker_vars>>
    /\ UNCHANGED aux_vars

AStopLock ==
    /\ apc = "stop_lock"
    /\ lock = "free"
    /\ lock' = "adapter"
    /\ apc' = "stop_write"
    /\ UNCHANGED <<chan, nsent, nlines, stop, overflow_checks, worker_vars>>
    /\ UNCHANGED aux_vars

AStopWrite ==
    /\ apc = "stop_write"
    /\ stop' = TRUE
    /\ lock' = "free"
    /\ apc' = "input"
    /\ UNCHANGED <<chan, nsent, nlines, overflow_checks, worker_vars>>
    /\ stop_sent' = nsent
    /\ UNCHANGED <<aerr, test_vars>>

AIsReady ==
    /\ ReadLine
    /\ Send("Ready", NoInfo, NoSpec)
    /\ UNCHANGED <<lock, stop, overflow_checks, worker_vars>>
    /\ UNCHANGED <<stop_sent, test_vars>>

\* todo!()
APonderHit ==
    /\ ReadLine
    /\ apc' = "panicked"
    /\ UNCHANGED <<chan, nsent, lock, stop, overflow_checks, worker_vars>>
    /\ aerr' = "todo!()"
    /\ UNCHANGED <<stop_sent, test_vars>>

AQuit ==
    /\ ReadLine
    /\ apc' = "exited"
    /\ UNCHANGED <<chan, nsent, lock, stop, overflow_checks, worker_vars>>
    /\ UNCHANGED aux_vars

AOther ==
    /\ ReadLine
    /\ UNCHANGED <<apc, chan, nsent, lock, stop, overflow_checks, worker_vars>>
    /\ UNCHANGED aux_vars

(***************************************************************************)
(* The worker loop, main.rs:37-54, and the Engine it drives                *)
(***************************************************************************)
adapter_vars == <<apc, chan, nsent, nlines>>

\* recv taking the newest message
recv_newest(ch) == [msg |-> ch[Len(ch)], rest |-> SubSeq(ch, 1, Len(ch) - 1)]

\* recv.recv(): the oldest message
recv(ch) == [msg |-> Head(ch), rest |-> Tail(ch)]

Receive(type) ==
    /\ Alive
    /\ wpc = "recv"
    /\ chan # <<>>
    /\ recv(chan).msg.type = type
    /\ cur' = recv(chan).msg
    /\ chan' = recv(chan).rest
    /\ nrecv' = nrecv + 1
    /\ UNCHANGED <<apc, nsent, nlines, overflow_checks>>

Panic(msg) ==
    /\ wpc' = "panicked"
    /\ werr' = msg

WNewGame ==
    /\ Receive("NewGame")
    /\ wpc' = "newgame_lock"
    /\ UNCHANGED <<lock, stop, engine_vars, out, werr>>
    /\ UNCHANGED aux_vars

WNewGameLock ==
    /\ Alive
    /\ wpc = "newgame_lock"
    /\ lock = "free"
    /\ lock' = "worker"
    /\ wpc' = "newgame_write"
    /\ UNCHANGED <<adapter_vars, stop, overflow_checks, engine_vars, out, nrecv, cur, werr>>
    /\ UNCHANGED aux_vars

\* the write under the lock, then setup_newgame
WNewGameWrite ==
    /\ Alive
    /\ wpc = "newgame_write"
    /\ stop' = FALSE
    /\ lock' = "free"
    /\ board' = Startpos
    /\ search_info' = SearchInfo(0)
    /\ wpc' = "recv"
    /\ UNCHANGED <<adapter_vars, overflow_checks, my_side, search_stack, end_cond, frames,
                   ret, saw_stop, out, nrecv, cur, werr>>
    /\ UNCHANGED aux_vars

RECURSIVE replay(_, _)
\* lines 150-154: the board after the moves, 0 when one of them is rejected
replay(b, moves) ==
    IF moves = <<>> THEN b
    ELSE IF \E i \in 1..Len(generate_moves(b)) : generate_moves(b)[i] = Head(moves)
         THEN replay(Head(moves), Tail(moves))
         ELSE 0

\* lines 134-155: the board set_position ends with, 0 when it panics
set_position(spec) ==
    LET start == IF spec.startpos THEN Startpos ELSE spec.fen
    IN  IF start = 0 THEN 0 ELSE replay(start, spec.moves)

WSetPosition ==
    /\ Receive("SetPosition")
    /\ LET b == set_position(recv(chan).msg.spec)
       IN  IF b = 0
           THEN /\ Panic("called Result::unwrap() on an Err value")
                /\ UNCHANGED <<board, my_side>>
           ELSE /\ board' = b
                /\ my_side' = side_to_move(b)
                /\ UNCHANGED <<wpc, werr>>
    /\ UNCHANGED <<lock, stop, search_info, search_stack, end_cond, frames, ret, saw_stop,
                   out>>
    /\ UNCHANGED aux_vars

WReady ==
    /\ Receive("Ready")
    /\ out' = Append(out, OutLine(recv(chan).msg.id, "readyok", NoMove, 0, 0))
    /\ UNCHANGED <<lock, stop, wpc, engine_vars, werr>>
    /\ UNCHANGED aux_vars

\* find_best_move, lines 160-200, up to the call of negamax
\* WGo with negamax called at the depth of a Depth budget
WGo_budget_depth ==
    /\ Receive("Go")
    /\ search_info' = SearchInfo(0)
    /\ LET e == resolve_end_cond(recv(chan).msg.info, my_side, overflow_checks)
       IN  IF e.kind = "Panic"
           THEN /\ Panic(e.base)
                /\ UNCHANGED <<end_cond, search_stack, frames>>
           ELSE /\ end_cond' = e
                /\ search_stack' = [i \in 1..StackSize |-> 0]
                /\ frames' = <<Call(board, IF e.kind = "Depth" /\ e.val[2] < StackSize
                                           THEN e.val[2]
                                           ELSE SearchDepth)>>
                /\ wpc' = "negamax"
                /\ werr' = werr
    /\ saw_stop' = FALSE
    /\ ret' = NoRet
    /\ UNCHANGED <<lock, stop, board, my_side, out>>
    /\ UNCHANGED aux_vars

WGo ==
    /\ Receive("Go")
    /\ search_info' = SearchInfo(0)
    /\ LET e == resolve_end_cond(recv(chan).msg.info, my_side, overflow_checks)
       IN  IF e.kind = "Panic"
           THEN /\ Panic(e.base)
                /\ UNCHANGED <<end_cond, search_stack, frames>>
           ELSE /\ end_cond' = e
                /\ search_stack' = [i \in 1..StackSize |-> 0]
                /\ frames' = <<Call(board, SearchDepth)>>
                /\ wpc' = "negamax"
                /\ werr' = werr
    /\ saw_stop' = FALSE
    /\ ret' = NoRet
    /\ UNCHANGED <<lock, stop, board, my_side, out>>
    /\ UNCHANGED aux_vars

Top == frames[Len(frames)]

Pop == SubSeq(frames, 1, Len(frames) - 1)

\* the loop of lines 253-257 takes its next move and calls negamax on it
NextMove(f) ==
    /\ search_info' = SearchInfo(search_info.nodes + 1)
    /\ frames' = Append(Pop, [f EXCEPT !.mv = Head(f.moves), !.moves = Tail(f.moves)])
                 \o <<Call(play_unchecked(f.board, Head(f.moves)), f.depth - 1)>>
    /\ wpc' = "negamax"
    /\ ret' = ret

Return(f, mv, score, stopped) ==
    /\ ret' = Ret(f.board, f.depth, mv, score, stopped)
    /\ frames' = Pop
    /\ wpc' = "returned"
    /\ search_info' = search_info

\* line 219: self.shared.lock()
NegamaxLock ==
    /\ Alive
    /\ wpc = "negamax"
    /\ lock = "free"
    /\ lock' = "worker"
    /\ wpc' = "negamax_locked"
    /\ UNCHANGED <<adapter_vars, stop, overflow_checks, engine_vars, out, nrecv, cur, werr>>
    /\ UNCHANGED aux_vars

\* NegamaxHead with the guard kept past the condition it was taken for
NegamaxHead_guard_kept ==
    /\ Alive
    /\ wpc = "negamax_locked"
    /\ lock' = lock
    /\ saw_stop' = (saw_stop \/ stop)
    /\ LET h == negamax_head(Top.board, Top.depth, search_stack, stop)
       IN  /\ search_stack' = h.stack
           /\ IF h.returns
              THEN Return(Top, NoMove, h.score, stop)
              ELSE NextMove([Top EXCEPT !.moves = h.moves])
    /\ UNCHANGED <<adapter_vars, stop, overflow_checks, board, my_side, end_cond, out, nrecv,
                   cur, werr>>
    /\ UNCHANGED aux_vars

\* lines 219-257: the flag is read, the guard dropped, and the activation
\* returns or calls negamax for its first move
NegamaxHead ==
    /\ Alive
    /\ wpc = "negamax_locked"
    /\ lock' = "free"
    /\ saw_stop' = (saw_stop \/ stop)
    /\ LET h == negamax_head(Top.board, Top.depth, search_stack, stop)
       IN  /\ search_stack' = h.stack
           /\ IF h.returns
              THEN Return(Top, NoMove, h.score, stop)
              ELSE NextMove([Top EXCEPT !.moves = h.moves])
    /\ UNCHANGED <<adapter_vars, stop, overflow_checks, board, my_side, end_cond, out, nrecv,
                   cur, werr>>
    /\ UNCHANGED aux_vars

\* lines 257-265: a call made by the loop has returned
NegamaxLoop ==
    /\ Alive
    /\ wpc = "returned"
    /\ frames # <<>>
    /\ LET f == take_score(Top, ret.score)
       IN  IF f.moves # <<>>
           THEN NextMove(f)
           ELSE Return(f, f.best_move, f.max_score, FALSE)
    /\ UNCHANGED <<adapter_vars, lock, stop, overflow_checks, board, my_side, search_stack,
                   end_cond, saw_stop, out, nrecv, cur, werr>>
    /\ UNCHANGED aux_vars

\* finish_lines with the bestmove line printed before the info line
finish_lines_bestmove_first(cmd, r, nodes) ==
    IF r.mv = NoMove
    THEN <<OutLine(cmd, "info", NoMove, nodes, r.score)>>
    ELSE <<OutLine(cmd, "bestmove", r.mv, 0, 0),
           OutLine(cmd, "info", NoMove, nodes, r.score)>>

\* find_best_move, lines 202-209, and main.rs:45: the info line, out.unwrap(),
\* the bestmove line
\* (the elapsed time and the nps of the info line are readings of the wall
\* clock and are left out of the line)
finish_lines(cmd, r, nodes) ==
    IF r.mv = NoMove
    THEN <<OutLine(cmd, "info", NoMove, nodes, r.score)>>
    ELSE <<OutLine(cmd, "info", NoMove, nodes, r.score),
           OutLine(cmd, "bestmove", r.mv, 0, 0)>>

WGoFinish ==
    /\ Alive
    /\ wpc = "returned"
    /\ frames = <<>>
    /\ out' = out \o finish_lines(cur.id, ret, search_info.nodes)
    /\ IF ret.mv = NoMove
       THEN Panic("called Option::unwrap() on a None value")
       ELSE /\ wpc' = "recv"
            /\ werr' = werr
    /\ UNCHANGED <<adapter_vars, lock, stop, overflow_checks, engine_vars, nrecv, cur>>
    /\ UNCHANGED aux_vars

Next ==
    \/ AUciNewGame
    \/ APosition
    \/ APositionShort
    \/ AGo
    \/ AGoMalformed
    \/ AStop
    \/ AStopLock
    \/ AStopWrite
    \/ AIsReady
    \/ APonderHit
    \/ AQuit
    \/ AOther
    \/ WNewGame
    \/ WNewGameLock
    \/ WNewGameWrite
    \/ WSetPosition
    \/ WReady
    \/ WGo
    \/ NegamaxLock
    \/ NegamaxHead
    \/ NegamaxLoop
    \/ WGoFinish

Spec == Init /\ [][Next]_vars

(***************************************************************************)
(* Budget resolution on its own: one Go, of any shape, received by a       *)
(* worker whose engine plays either side.                                  *)
(***************************************************************************)
MaxU32 == U32(65535, 65535)

\* 0x55555555 is the largest u32 whose triple fits a u32
ClockValues ==
    {NoneU32, U32(0, 0), U32(0, 4000), U32(0, 10000), U32(21845, 21845),
     U32(21845, 21846), MaxU32}

DepthValues ==
    {NoneU32, U32(0, 0), U32(0, 5), U32(0, 255), U32(0, 256), U32(0, 300), U32(1, 0),
     MaxU32}

Maybe(x) == {NoneU32, x}

AllGoInfos ==
    { GoInfo(wtime, btime, winc, binc, moves_to_go, depth, nodes, mate, movetime, infinite) :
        wtime \in ClockValues, btime \in ClockValues,
        winc \in Maybe(U32(0, 100)), binc \in Maybe(U32(0, 100)),
        moves_to_go \in Maybe(U32(0, 40)), depth \in DepthValues,
        nodes \in Maybe(U32(0, 1)), mate \in Maybe(U32(0, 2)),
        movetime \in Maybe(U32(0, 1000)), infinite \in BOOLEAN }

InitBudget ==
    /\ apc = "input"
    /\ wpc = "recv"
    /\ \E info \in AllGoInfos : chan = <<Message(1, "Go", info, NoSpec)>>
    /\ lock = "free"
    /\ stop = FALSE
    /\ overflow_checks \in BOOLEAN
    /\ search_info = SearchInfo(0)
    /\ my_side \in Color
    /\ board = (IF my_side = White THEN Startpos ELSE 3)
    /\ search_stack = <<>>
    /\ end_cond = NoEndCondition
    /\ frames = <<>>
    /\ ret = NoRet
    /\ saw_stop = FALSE
    /\ out = <<>>
    /\ nlines = 1
    /\ nsent = 1
    /\ nrecv = 0
    /\ cur = NoMessage
    /\ werr = ""
    /\ aerr = ""
    /\ stop_sent = 0
    /\ perft_call = <<>>
    /\ perft_nodes = -1

NextBudget == WGo

SpecBudget == InitBudget /\ [][NextBudget]_vars

\* the worker has taken a Go and left the head of find_best_move
Resolved == cur.type = "Go" /\ wpc # "recv"

SearchStarted(kind) ==
    /\ end_cond.kind = kind
    /\ wpc # "panicked"
    /\ Len(search_stack) = StackSize

NoSearchRun ==
    /\ wpc = "panicked"
    /\ frames = <<>>
    /\ search_stack = <<>>
    /\ end_cond = NoEndCondition

BothClocks(info) == IsSome(info.wtime) /\ IsSome(info.btime)

ClockPolicy(info) ==
    /\ ~info.infinite
    /\ ~IsSome(info.nodes)
    /\ ~IsSome(info.depth)
    /\ ~IsSome(info.movetime)
    /\ BothClocks(info)

\* C1: the budget of a Go resolves by strict priority: infinite, then nodes,
\* then depth, then movetime (counted from the start), then both clocks
\* (a clock-based deadline); with none of them the worker panics and no
\* search is run.
C1_Priority ==
    (nrecv = 1 /\ Resolved) =>
        LET info == cur.info
        IN  IF info.infinite THEN SearchStarted("Infinite")
            ELSE IF IsSome(info.nodes)
                 THEN SearchStarted("Nodes") /\ end_cond.val = info.nodes
            ELSE IF IsSome(info.depth) THEN SearchStarted("Depth")
            ELSE IF IsSome(info.movetime)
                 THEN /\ SearchStarted("Time")
                      /\ end_cond.val = info.movetime
                      /\ end_cond.base = "t1"
            ELSE IF BothClocks(info)
                 THEN SearchStarted("Time") /\ end_cond.base = "now"
            ELSE NoSearchRun /\ werr = "No end condition findable!"

Mine(info) == IF my_side = White THEN info.wtime ELSE info.btime

Theirs(info) == IF my_side = White THEN info.btime ELSE info.wtime

\* x / k over three limbs
DivWide(x, k) ==
    LET r1 == x[1] % k
        r2 == (r1 * Limb + x[2]) % k
    IN  <<x[1] \div k, (r1 * Limb + x[2]) \div k, (r2 * Limb + x[3]) \div k>>

AddWide(a, b) ==
    LET lo == a[3] + b[3]
        mid == a[2] + b[2] + (lo \div Limb)
    IN  <<a[1] + b[1] + (mid \div Limb), mid % Limb, lo % Limb>>

Widen(x) == <<0>> \o x

\* ((mine - theirs) * 3) / 4 + mine / 10, or mine / 10, in unbounded arithmetic
TrueAllocation(mine, theirs) ==
    IF LtU32(theirs, mine)
    THEN AddWide(DivWide(Mul3Wide(SubU32(mine, theirs)), 4), Widen(DivU32(mine, 10)))
    ELSE Widen(DivU32(mine, 10))

\* C2: under the clock policy the time allotted is the true value of
\* ((mine - theirs) * 3) / 4 + mine / 10 when theirs < mine, and mine / 10
\* otherwise, for all u32 clocks.
C2_TrueAllocation ==
    (nrecv = 1 /\ Resolved /\ ClockPolicy(cur.info)) =>
        /\ end_cond.kind = "Time"
        /\ Widen(end_cond.val) = TrueAllocation(Mine(cur.info), Theirs(cur.info))

MinU32(d, cap) == IF d[1] > 0 \/ d[2] > cap THEN cap ELSE d[2]

DepthPolicy(info) == ~info.infinite /\ ~IsSome(info.nodes) /\ IsSome(info.depth)

\* C3: the ceiling of the Depth policy is the go depth capped at 255.
C3_DepthCapped ==
    (nrecv = 1 /\ Resolved /\ DepthPolicy(cur.info)) =>
        /\ end_cond.kind = "Depth"
        /\ end_cond.val = U32(0, MinU32(cur.info.depth, 255))

(***************************************************************************)
(* The search and the worker loop                                          *)
(***************************************************************************)
\* the top-level negamax call of the Go in hand has returned
RootReturned == cur.type = "Go" /\ wpc = "returned" /\ frames = <<>>

\* some activation has just returned to its caller, whose frames are its
\* ancestors on the line
NodeReturned == wpc = "returned" /\ frames # <<>>

ZeroStack == [i \in 1..StackSize |-> 0]

\* C4: a top-level call that reads the flag as set returns (None, 0) with no
\* move counted and no slot of the search stack written.
C4_CancelledAtRoot ==
    (RootReturned /\ ret.stopped) =>
        /\ ret.mv = NoMove
        /\ ret.score = 0
        /\ search_info.nodes = 0
        /\ search_stack = ZeroStack

C4_Witness ==
    /\ RootReturned
    /\ ret.stopped
    /\ status(board) = "Ongoing"
    /\ generate_moves(board) # <<>>

\* the sentinel of a cancelled top-level call: it is kept in ret once the
\* call is over
RootCancelled == cur.type = "Go" /\ frames = <<>> /\ ret.stopped /\ ret.depth = SearchDepth

BestmoveLines(cmd) == {i \in 1..Len(out) : out[i].line = "bestmove" /\ out[i].cmd = cmd}

\* C5: a Go whose top-level call was cancelled does not abort the worker and
\* prints no bestmove line.
C5_GracefulCancel ==
    RootCancelled => (wpc # "panicked" /\ BestmoveLines(cur.id) = {})

IsLegal(b, mv) == \E i \in 1..Len(generate_moves(b)) : generate_moves(b)[i] = mv

\* C6: with the flag false at every poll, the search of an ongoing position
\* that has a legal move returns one of its legal moves, a score within
\* -1000..1000 and a node count >= 0.
C6_LegalMove ==
    (RootReturned /\ ~saw_stop /\ status(board) = "Ongoing" /\ generate_moves(board) # <<>>) =>
        /\ ret.mv # NoMove
        /\ IsLegal(board, ret.mv)
        /\ ret.score \in -1000..1000
        /\ search_info.nodes >= 0

\* the node that returned has the hash of one of its ancestors
HashOfAncestor == \E i \in 1..Len(frames) : hash(frames[i].board) = hash(ret.board)

\* C7, as claimed: every node whose hash is that of an ancestor on the line
\* returns score 0, at any remaining depth, 0 included.
C7_RepetitionAlwaysZero ==
    (NodeReturned /\ HashOfAncestor) => ret.score = 0

\* C7, amended: a node with remaining depth >= 1 and ongoing status whose
\* hash is that of an ancestor on the line returns (None, 0), whatever its
\* piece counts.
C7_RepetitionAboveLeaf ==
    (NodeReturned /\ HashOfAncestor /\ ret.depth >= 1 /\ status(ret.board) = "Ongoing") =>
        (ret.score = 0 /\ ret.mv = NoMove)

C7_Witness ==
    /\ NodeReturned
    /\ HashOfAncestor
    /\ ~ret.stopped
    /\ ret.depth >= 1
    /\ status(ret.board) = "Ongoing"
    /\ colors(ret.board, White) # colors(ret.board, Black)

\* C8: a node that read the flag as false and whose position is Won returns
\* (None, 1000) with White to move and (None, -1000) with Black to move; one
\* whose position is Drawn returns (None, 0).
C8_TerminalScores ==
    (wpc = "returned" /\ ~ret.stopped /\ status(ret.board) # "Ongoing") =>
        /\ ret.mv = NoMove
        /\ status(ret.board) = "Won" =>
               ret.score = (IF side_to_move(ret.board) = White THEN 1000 ELSE -1000)
        /\ status(ret.board) = "Drawn" => ret.score = 0

\* a lost position with White to move, above depth 0, with the hash of an
\* ancestor
C8_Witness ==
    /\ NodeReturned
    /\ ~ret.stopped
    /\ status(ret.board) = "Won"
    /\ side_to_move(ret.board) = White
    /\ ret.depth > 0
    /\ HashOfAncestor
    /\ ret.score = 1000

\* C9, as claimed: the bestmove line of a Go comes before its info line.
C9_BestmoveFirst ==
    \A i, j \in 1..Len(out) :
        (out[i].cmd = out[j].cmd /\ out[i].line = "bestmove" /\ out[j].line = "info") => i < j

\* C9, amended: the info line of a Go comes first and its bestmove line
\* right after it; no bestmove line is printed before the info line of
\* its search.
C9_InfoFirst ==
    \A i \in 1..Len(out) :
        out[i].line = "bestmove" =>
            /\ i > 1
            /\ out[i - 1].line = "info"
            /\ out[i - 1].cmd = out[i].cmd

C9_Witness == \E i \in 1..Len(out) : out[i].line = "bestmove"

Searching == wpc \in {"negamax", "negamax_locked", "returned"}

\* C10: the worker takes the messages in the order they were sent, one at
\* a time, so the lines it prints are in command order; a search never holds
\* the adapter: a send does not wait, and the lock is the worker's only
\* between reading the flag and dropping the guard.
C10_InOrder ==
    /\ \A i \in 1..Len(chan) : chan[i].id = nrecv + i
    /\ nsent = nrecv + Len(chan)
    /\ cur.id = nrecv
    /\ \A i, j \in 1..Len(out) : i < j => out[i].cmd <= out[j].cmd
    /\ \A i \in 1..Len(out) : out[i].cmd <= nrecv
    /\ wpc = "recv" \/ \A i \in 1..Len(out) : out[i].cmd <= cur.id
    /\ (Searching /\ apc = "input" /\ nlines < MaxLines) => ENABLED AIsReady
    /\ lock = "worker" => wpc \in {"negamax_locked", "newgame_write"}

\* an isready read while a search runs: it waits in the channel, and the
\* adapter is back at its input
C10_Witness ==
    /\ Searching
    /\ frames # <<>>
    /\ apc = "input"
    /\ nlines < MaxLines
    /\ \E i \in 1..Len(chan) : chan[i].type = "Ready"

\* a step in which a line or a command fails to parse: a malformed go line
\* read, or a position the rules library rejects (an unparsable FEN or an
\* illegal replay move) taken from the channel
ParseFailure ==
    \/ AGoMalformed
    \/ WSetPosition /\ set_position(recv(chan).msg.spec) = 0

\* C11: each parsing failure (a go keyword that ends the line or is followed
\* by a non-integer, an unparsable position, a rejected replay move) aborts
\* the worker thread and leaves the adapter thread running.
C11_ParseFailureAbortsWorker ==
    [][ParseFailure => (wpc' = "panicked" /\ apc' = apc /\ apc' # "panicked")]_vars

(***************************************************************************)
(* negamax on its own: one call on any position, at any remaining depth up *)
(* to the one find_best_move uses, with a fresh stack and the flag false   *)
(***************************************************************************)
InitNegamax ==
    /\ apc = "input"
    /\ wpc = "negamax"
    /\ chan = <<>>
    /\ lock = "free"
    /\ stop = FALSE
    /\ overflow_checks \in BOOLEAN
    /\ search_info = SearchInfo(0)
    /\ board \in Boards
    /\ my_side = side_to_move(board)
    /\ search_stack = ZeroStack
    /\ end_cond = NoEndCondition
    /\ \E depth \in 0..SearchDepth : frames = <<Call(board, depth)>>
    /\ ret = NoRet
    /\ saw_stop = FALSE
    /\ out = <<>>
    /\ nlines = 0
    /\ nsent = 0
    /\ nrecv = 0
    /\ cur = NoMessage
    /\ werr = ""
    /\ aerr = ""
    /\ stop_sent = 0
    /\ perft_call = <<>>
    /\ perft_nodes = -1

NextNegamax == NegamaxLock \/ NegamaxHead \/ NegamaxLoop

SpecNegamax == InitNegamax /\ [][NextNegamax]_vars

\* the call SpecNegamax started has returned
Returned == wpc = "returned" /\ frames = <<>>

\* C12: negamax on a position and on its colour-mirrored counterpart, at
\* equal remaining depth and with the flag false, returns scores that are
\* exact negations of each other, for every position.
C12_MirrorNegates ==
    Returned => ret.score = -negamax(mirror(board), ret.depth, ZeroStack, 0).score

(***************************************************************************)
(* perft on its own: one call on any position                              *)
(***************************************************************************)
\* the largest depth perft is called with
MaxPerftDepth == 5

InitPerft ==
    /\ apc = "input"
    /\ wpc = "recv"
    /\ chan = <<>>
    /\ lock = "free"
    /\ stop = FALSE
    /\ overflow_checks \in BOOLEAN
    /\ EngineNew
    /\ end_cond = NoEndCondition
    /\ frames = <<>>
    /\ ret = NoRet
    /\ saw_stop = FALSE
    /\ out = <<>>
    /\ nlines = 0
    /\ nsent = 0
    /\ nrecv = 0
    /\ cur = NoMessage
    /\ werr = ""
    /\ aerr = ""
    /\ stop_sent = 0
    /\ perft_call \in Boards \X (0..MaxPerftDepth)
    /\ perft_nodes = -1

\* let nodes = perft(&mut board, depth as u8), line 322
Perft ==
    /\ perft_nodes = -1
    /\ perft_nodes' = perft(perft_call[1], perft_call[2])
    /\ UNCHANGED <<apc, wpc, chan, lock, stop, overflow_checks, engine_vars, out, nlines,
                   nsent, nrecv, cur, werr, aerr, stop_sent, perft_call>>

NextPerft == Perft

SpecPerft == InitPerft /\ [][NextPerft]_vars

\* the legal moves of a position, as a set
LegalMoves(b) == {generate_moves(b)[i] : i \in 1..Len(generate_moves(b))}

\* the sequences of exactly n legal moves that start at b
RECURSIVE MoveSequences(_, _)
MoveSequences(b, n) ==
    IF n = 0
    THEN {<<>>}
    ELSE UNION {{<<mv>> \o rest : rest \in MoveSequences(play_unchecked(b, mv), n - 1)} :
                mv \in LegalMoves(b)}

\* C13: perft(position, depth) is the number of distinct legal move sequences
\* of length exactly depth from the position: 1 at depth 0, and so 0 at any
\* depth above 0 for a position with no legal moves.
C13_PerftCounts ==
    perft_nodes # -1 =>
        LET b == perft_call[1]
            depth == perft_call[2]
        IN  /\ perft_nodes = Cardinality(MoveSequences(b, depth))
            /\ depth = 0 => perft_nodes = 1
            /\ (depth > 0 /\ generate_moves(b) = <<>>) => perft_nodes = 0

\* a count taken two plies down that adds up more than one line
C13_Witness ==
    /\ perft_nodes > 2
    /\ perft_call[2] >= 2

\* a call made by the loop of the activation on top of the stack has come
\* back having seen the flag
CancelledChildReturned == wpc = "returned" /\ frames # <<>> /\ ret.stopped

\* C14: the 0 a node returns because it saw the flag is never taken as an
\* evaluation by its caller: the caller's max_score and best_move stay what
\* they were, whether it goes on to its next move or returns them.
C14_CancelledScoreUnused ==
    [][CancelledChildReturned =>
         IF Len(frames') >= Len(frames)
         THEN /\ frames'[Len(frames)].max_score = Top.max_score
              /\ frames'[Len(frames)].best_move = Top.best_move
         ELSE /\ ret'.score = Top.max_score
              /\ ret'.mv = Top.best_move]_vars

\* C15: a stop, once written, stays in effect until a ucinewgame line entered
\* after it is processed: the flag goes back to false only while the worker
\* processes a NewGame sent after the stop was written, never one that was
\* already queued.
C15_StopStaysUntilLaterNewGame ==
    [][(stop /\ ~stop') => (cur.type = "NewGame" /\ cur.id > stop_sent)]_vars

(***************************************************************************)
(* The threads under a fair scheduler: a thread that can go on with the    *)
(* lock, or that holds it, is not held up forever                          *)
(***************************************************************************)
Fairness ==
    /\ WF_vars(AStopLock)
    /\ WF_vars(AStopWrite)
    /\ WF_vars(NegamaxLock)
    /\ WF_vars(NegamaxHead)
    /\ WF_vars(WNewGameLock)
    /\ WF_vars(WNewGameWrite)

SpecFair == Spec /\ Fairness

\* the lock is held exactly between taking it and the one access it is for
LockHeldForOneAccess ==
    /\ lock = "worker" <=> wpc \in {"negamax_locked", "newgame_write"}
    /\ lock = "adapter" <=> apc = "stop_write"
    /\ wpc \in {"recv", "negamax", "returned"} => lock # "worker"
    /\ apc = "input" => lock # "adapter"

\* C16: the lock is held only for a single read (the poll) or a single write
\* (stop, the reset of NewGame): it is free whenever the worker is below the
\* poll, in the move loop or at the channel and whenever the adapter is at
\* its input; so a thread that asks for the lock gets it, and a stop write
\* completes.
C16_LockNeverHeldAcross ==
    /\ []LockHeldForOneAccess
    /\ (apc = "stop_lock") ~> (apc = "input" /\ stop_sent = nsent)
    /\ (wpc = "negamax" /\ Alive) ~> (wpc # "negamax" \/ ~Alive)

\* the adapter asks for the lock while the worker holds it for a poll
C16_Witness ==
    /\ apc = "stop_lock"
    /\ wpc = "negamax_locked"
    /\ lock = "worker"

\* C17: whenever a Go is processed, the recorded my_side is the side to move
\* of the engine's current position, whatever NewGame, SetPosition and Go
\* commands came before.
C17_MySideIsSideToMove ==
    (cur.type = "Go" /\ wpc # "recv") => my_side = side_to_move(board)

\* the activation on top of the stack is about to make the repetition test
\* of lines 237-242
AtRepetitionTest ==
    /\ wpc = "negamax_locked"
    /\ ~stop
    /\ Top.depth > 0
    /\ status(Top.board) = "Ongoing"

\* slot d of the stack holds the hash of the ancestor of the top activation
\* that has remaining depth d
HoldsAncestor(d) ==
    \E i \in 1..(Len(frames) - 1) :
        frames[i].depth = d /\ search_stack[d + 1] = hash(frames[i].board)

\* C18: in a search started at remaining depth 3, every slot a node at
\* remaining depth d scans (the slots above d of the 16) holds the hash of
\* its actual ancestor at that depth; so (None, 0) is returned for a
\* repetition only when the node's hash is that of a real ancestor on the
\* current line.
C18_ScannedSlotsAreAncestors ==
    /\ AtRepetitionTest => \A d \in (Top.depth + 1)..(StackSize - 1) : HoldsAncestor(d)
    /\ (NodeReturned /\ ~ret.stopped /\ ret.depth > 0 /\ status(ret.board) = "Ongoing"
            /\ ret.mv = NoMove /\ ret.score = 0)
         => HashOfAncestor

\* what negamax returns for the current position from the depth
\* find_best_move calls it with, on a fresh stack, the flag staying false
FullSearch == negamax(board, SearchDepth, ZeroStack, 0)

\* C19: with the flag false throughout, the outcome of a Go does not depend
\* on the policy that was resolved: the activations are at remaining depth 3
\* and one less per level, and the move, the score and the node count, as
\* returned and as printed, are those of the full search of the current
\* position to depth 3, whatever end_cond holds.
C19_OutcomeIndependentOfPolicy ==
    /\ Searching => \A i \in 1..Len(frames) : frames[i].depth = SearchDepth - (i - 1)
    /\ (RootReturned /\ ~saw_stop) =>
           /\ ret.depth = SearchDepth
           /\ ret.mv = FullSearch.mv
           /\ ret.score = FullSearch.score
           /\ search_info.nodes = FullSearch.nodes
    /\ (cur.type = "Go" /\ ~saw_stop) =>
           \A i \in 1..Len(out) :
               out[i].cmd = cur.id =>
                   IF out[i].line = "info"
                   THEN out[i].nodes = FullSearch.nodes /\ out[i].score = FullSearch.score
                   ELSE out[i].mv = FullSearch.mv

\* a search under a policy other than Depth has been reported, and it
\* looked at more than the root's moves
C19_Witness ==
    /\ cur.type = "Go"
    /\ ~saw_stop
    /\ end_cond.kind \in {"Infinite", "Nodes", "Time"}
    /\ \E i \in 1..Len(out) :
           out[i].cmd = cur.id /\ out[i].line = "bestmove" /\ out[i].mv = FullSearch.mv
    /\ FullSearch.nodes > Len(generate_moves(board))

\* C20: every Go whose budget resolves finishes without a stop request: each
\* call is made one below its caller's remaining depth, none below 0 and
\* every stack index within 0..15; and the worker goes on to receive the next
\* command, so it is never found dead after a search that no stop cut short.
C20_ResolvedGoFinishes ==
    /\ Searching =>
           /\ \A i \in 1..Len(frames) : frames[i].depth \in 0..(StackSize - 1)
           /\ \A i \in 2..Len(frames) : frames[i].depth = frames[i - 1].depth - 1
    /\ (cur.type = "Go" /\ wpc = "panicked" /\ ~saw_stop) => ret = NoRet

====
